---- MODULE Spec2Model ----
(***************************************************************************)
(* State-machine model of the AnyStreamPro backend (src/main.py): the two  *)
(* request handlers get_formats and download_merged, the stale-file sweep  *)
(* cleanup_old_files, the lazily evaluated file_iterator behind the        *)
(* StreamingResponse, and the shared workspace directory TEMP_DIR.         *)
(*                                                                         *)
(* Both handlers are "async def" bodies without any await, so a handler    *)
(* occupies the single event loop of uvicorn.run(app) from its first line  *)
(* to its return or raise.  file_iterator is a plain generator: each       *)
(* next() on it is dispatched from the event loop to a worker thread and   *)
(* then runs independently of the loop.                                    *)
(***************************************************************************)
EXTENDS Integers, Sequences, FiniteSets, TLC

\* ---- bounds of the model ------------------------------------------------
NReq == 2          \* number of requests that are served
NIds == 2          \* number of distinct values job_id is drawn from
MaxChunks == 2     \* largest merged file, in 1 MB chunks
MaxTicks == 2      \* number of clock ticks
TickUnit == 3600   \* seconds per clock tick

\* ---- program constants --------------------------------------------------
MaxAge == 3600     \* retention threshold of cleanup_old_files, seconds

Reqs == 1..NReq
JobIds == 1..NIds
Kinds == {"video", "audio", "merged"}
ErrMsgs == {"err_a", "err_b"}

\* ---- the workspace directory -------------------------------------------
cookie_path == <<0, "cookies">>
stray_file == <<0, "stray">>
stray_dir == <<0, "subdir">>
NoPath == <<0, "none">>
TEMP_DIR == (JobIds \X Kinds) \cup {cookie_path, stray_file, stray_dir}

NoEntry == [typ |-> "none", mtime |-> 0, len |-> 0]
RegularFile(t, n) == [typ |-> "file", mtime |-> t, len |-> n]
Directory == [typ |-> "dir", mtime |-> 0, len |-> 0]

NoDetail == [prefix |-> "", msg |-> ""]

VARIABLES
    now,        \* time.time()
    fs,         \* TEMP_DIR: path -> entry
    cookiesEnv, \* whether os.environ has COOKIES_CONTENT
    loop,       \* the request whose handler occupies the event loop, 0 if none
    kind,       \* per request: "none", "health", "formats" or "download"
    pc,         \* per request: position in its handler / job state
    job_id,     \* per download request: its job id, 0 before it is drawn
    status,     \* per request: HTTP status sent, 0 if none yet
    detail,     \* per request: detail of the error response
    err,        \* per request: the message the failing collaborator raised
    failedOp,   \* per request: the operation that failed, "none" if none
    sweepNow,   \* per request: "now" captured by cleanup_old_files
    todo,       \* per request: entries listed by glob, not yet visited
    cur,        \* per request: entry that passed is_file(), awaiting stat()
    sweeps,     \* per request: number of sweeps the request has invoked
    pending,    \* per request: a next() of file_iterator runs on a thread
    opened,     \* per request: length of the opened output file, -1 if not open
    delivered,  \* per request: chunks yielded to the consumer, in order
    delFailed,  \* per request: paths on which an unlink() of the request failed
    info,       \* the dictionary extract_info returned to get_formats
    resp        \* the response get_formats built from info

vars == <<now, fs, cookiesEnv, loop, kind, pc, job_id, status, detail, err,
          failedOp, sweepNow, todo, cur, sweeps, pending, opened, delivered,
          delFailed, info, resp>>

envVars == <<cookiesEnv, info, resp>>
reqVars == <<kind, pc, job_id, status, detail, err, failedOp>>
sweepVars == <<sweepNow, todo, cur, sweeps>>
streamVars == <<pending, opened, delivered>>

\* ---- the catalog built by get_formats (main.py 116-183) -----------------
MaxFormats == 3    \* longest per-format listing of the collaborator

\* A dictionary value that is an integer, None, or whose key is missing.
KeyAbsent == [k |-> "absent", v |-> 0]
Null == [k |-> "null", v |-> 0]
IntVal(n) == [k |-> "int", v |-> n]
\* The '?' that stands in for a missing dimension in a resolution string.
Question == [k |-> "?", v |-> 0]

\* Codec values of a raw record; "<absent>" is a missing key or None, for
\* both of which f.get('vcodec') is None.
CodecValues == {"<absent>", "", "none", "avc1"}
RawFormats == [vcodec : CodecValues, acodec : CodecValues,
               height : {Null, IntVal(480), IntVal(720)}]
Listings == UNION {[1..n -> RawFormats] : n \in 0..MaxFormats}

\* What extract_info may return: a per-format listing, or no listing with
\* or without a direct url and with whatever width, height and title.
NoInfo == [formats |-> <<>>, url |-> FALSE, width |-> KeyAbsent,
           height |-> KeyAbsent, title |-> "<absent>"]
InfoInputs ==
    {[NoInfo EXCEPT !.formats = l, !.title = "T"] : l \in Listings \ {<<>>}}
    \cup [formats : {<<>>}, url : BOOLEAN,
          width : {KeyAbsent, Null, IntVal(640)},
          height : {KeyAbsent, Null, IntVal(480)},
          title : {"<absent>", "T"}]

NoResp == [status |-> 0, title |-> "", formats |-> <<>>]

\* Variant of the codec test that only compares with the sentinel.
HasCodec_SentinelOnly(c) == c # "none"

\* Lines 148-149: "vcodec and vcodec != 'none'": None and '' are falsy.
HasCodec(c) == c \notin {"<absent>", ""} /\ c # "none"

\* Lines 151-158: the type label of a raw record, "drop" for continue.
TypeLabel(f) ==
    LET has_video == HasCodec(f.vcodec)
        has_audio == HasCodec(f.acodec)
    IN  IF has_video /\ ~has_audio THEN "video"
        ELSE IF has_audio /\ ~has_video THEN "audio"
        ELSE IF has_video /\ has_audio THEN "combined"
        ELSE "drop"

\* Line 146: f.get('height') or 0.
HeightOr0(h) == IF h.k = "int" THEN h.v ELSE 0

\* Lines 143-173: the descriptors appended for the raw records l[i..], in
\* listing order; format_id is the record's own id, here its position.
RECURSIVE Appended(_, _)
Appended(l, i) ==
    IF i > Len(l) THEN <<>>
    ELSE (IF TypeLabel(l[i]) = "drop" THEN <<>>
          ELSE <<[format_id |-> i, type |-> TypeLabel(l[i]),
                  resolution |-> <<Question, IntVal(HeightOr0(l[i].height))>>,
                  height |-> IntVal(HeightOr0(l[i].height))]>>)
         \o Appended(l, i + 1)

\* info.get(key, '?') inside the f-string of line 136.
OrQuestion(d) == IF d.k = "absent" THEN Question ELSE d
\* info.get('height', 0) of line 140: the default applies to a missing key only.
OrZero(d) == IF d.k = "absent" THEN IntVal(0) ELSE d

\* Lines 129-141: the synthetic descriptor of a source without a listing.
Synthetic(i) ==
    IF i.formats = <<>> /\ i.url
    THEN <<[format_id |-> 0, type |-> "combined",
            resolution |-> <<OrQuestion(i.width), OrQuestion(i.height)>>,
            height |-> OrZero(i.height)]>>
    ELSE <<>>

\* Variant of the insertion that puts a descriptor before its equals.
RECURSIVE InsertDesc_BeforeEquals(_, _)
InsertDesc_BeforeEquals(x, s) ==
    IF s = <<>> THEN <<x>>
    ELSE IF Head(s).height.v > x.height.v
         THEN <<Head(s)>> \o InsertDesc_BeforeEquals(x, Tail(s))
         ELSE <<x>> \o s

\* Line 175: list.sort(key=height, reverse=True) is stable: a descriptor
\* goes behind every descriptor that is at least as high.
RECURSIVE InsertDesc(_, _)
InsertDesc(x, s) ==
    IF s = <<>> THEN <<x>>
    ELSE IF Head(s).height.v >= x.height.v
         THEN <<Head(s)>> \o InsertDesc(x, Tail(s))
         ELSE <<x>> \o s

RECURSIVE SortDesc(_)
SortDesc(s) ==
    IF s = <<>> THEN <<>>
    ELSE InsertDesc(s[Len(s)], SortDesc(SubSeq(s, 1, Len(s) - 1)))

\* Lines 185-188 for an exception raised while the catalog is built.
CatalogError == [status |-> 400, title |-> "", formats |-> <<>>]

\* Lines 118-183: title, synthetic descriptor, loop, sort, response.  The
\* FormatInfo constructor validates its fields (line 47, height: int): a
\* height that is None raises inside the try and is answered by lines
\* 185-188.
Catalog(i) ==
    LET title == IF i.title = "<absent>" THEN "Unknown Title" ELSE i.title
        first == Synthetic(i)
    IN  IF first # <<>> /\ first[1].height.k # "int" THEN CatalogError
        ELSE [status |-> 200, title |-> title,
              formats |-> SortDesc(first \o Appended(i.formats, 1))]

Init ==
    /\ now = 0
    /\ fs = [p \in TEMP_DIR |-> IF p = stray_file THEN RegularFile(0, 1)
                                ELSE IF p = stray_dir THEN Directory
                                ELSE NoEntry]
    /\ cookiesEnv \in BOOLEAN
    /\ loop = 0
    /\ kind = [r \in Reqs |-> "none"]
    /\ pc = [r \in Reqs |-> "idle"]
    /\ job_id = [r \in Reqs |-> 0]
    /\ status = [r \in Reqs |-> 0]
    /\ detail = [r \in Reqs |-> NoDetail]
    /\ err = [r \in Reqs |-> ""]
    /\ failedOp = [r \in Reqs |-> "none"]
    /\ sweepNow = [r \in Reqs |-> 0]
    /\ todo = [r \in Reqs |-> {}]
    /\ cur = [r \in Reqs |-> NoPath]
    /\ sweeps = [r \in Reqs |-> 0]
    /\ pending = [r \in Reqs |-> FALSE]
    /\ opened = [r \in Reqs |-> -1]
    /\ delivered = [r \in Reqs |-> <<>>]
    /\ delFailed = [r \in Reqs |-> {}]
    /\ info = NoInfo
    /\ resp = NoResp

\* The clock advances.
Tick ==
    /\ now + TickUnit <= MaxTicks * TickUnit
    /\ now' = now + TickUnit
    /\ UNCHANGED <<fs, envVars, loop, reqVars, sweepVars, streamVars, delFailed>>

\* ---- cleanup_old_files (main.py 59-68) ---------------------------------
\* glob("*"): the entries of TEMP_DIR at the time of the listing.
Glob(F) == {p \in TEMP_DIR : F[p].typ # "none"}

\* Variant of the age test that also removes a file exactly MaxAge old.
IsStale_AtLeast(t, e) == (t - e.mtime) >= MaxAge

\* (now - f.stat().st_mtime) > 3600, with "now" as captured at line 62.
IsStale(t, e) == (t - e.mtime) > MaxAge

\* Line 62-63: capture the time and list the directory.
SweepBegin(r) ==
    /\ sweepNow' = [sweepNow EXCEPT ![r] = now]
    /\ todo' = [todo EXCEPT ![r] = Glob(fs)]
    /\ cur' = [cur EXCEPT ![r] = NoPath]
    /\ sweeps' = [sweeps EXCEPT ![r] = @ + 1]

\* Line 64, left operand: f.is_file() on the next listed entry.  It is
\* False for a directory and for an entry that has vanished since the glob.
SweepIsFile(r) ==
    /\ pc[r] = "f_sweep"
    /\ cur[r] = NoPath
    /\ \E p \in todo[r] :
          /\ todo' = [todo EXCEPT ![r] = @ \ {p}]
          /\ cur' = [cur EXCEPT ![r] = IF fs[p].typ = "file" THEN p ELSE NoPath]
    /\ UNCHANGED <<now, fs, envVars, loop, reqVars, sweepNow, sweeps,
                   streamVars, delFailed>>

\* Line 64, right operand, and 65-68, for an entry that still exists:
\* stat(), the age test, and unlink() with every error swallowed.
SweepStat(r) ==
    /\ pc[r] = "f_sweep"
    /\ cur[r] # NoPath
    /\ fs[cur[r]].typ # "none"
    /\ IF IsStale(sweepNow[r], fs[cur[r]])
       THEN \E ok \in BOOLEAN :
               /\ fs' = IF ok THEN [fs EXCEPT ![cur[r]] = NoEntry] ELSE fs
               /\ delFailed' = IF ok THEN delFailed
                                ELSE [delFailed EXCEPT ![r] = @ \cup {cur[r]}]
       ELSE UNCHANGED <<fs, delFailed>>
    /\ cur' = [cur EXCEPT ![r] = NoPath]
    /\ UNCHANGED <<now, envVars, loop, reqVars, sweepNow, todo, sweeps,
                   streamVars>>

\* Line 64, right operand, for an entry removed since is_file(): stat()
\* raises outside any try, the exception leaves cleanup_old_files and
\* get_formats (line 87 is outside the try of line 113): status 500.
SweepStatRaises(r) ==
    /\ pc[r] = "f_sweep"
    /\ cur[r] # NoPath
    /\ fs[cur[r]].typ = "none"
    /\ cur' = [cur EXCEPT ![r] = NoPath]
    /\ todo' = [todo EXCEPT ![r] = {}]
    /\ pc' = [pc EXCEPT ![r] = "Failed"]
    /\ status' = [status EXCEPT ![r] = 500]
    /\ failedOp' = [failedOp EXCEPT ![r] = "sweep"]
    /\ loop' = 0
    /\ UNCHANGED <<now, fs, envVars, kind, job_id, detail, err, sweepNow,
                   sweeps, streamVars, delFailed>>

\* ---- the shared credential file (main.py 91-97, 199-205) ----------------
WriteCookies(F) ==
    IF cookiesEnv THEN [F EXCEPT ![cookie_path] = RegularFile(now, 1)] ELSE F

\* ---- get_formats (main.py 84-188) ---------------------------------------
\* Line 85-87: the handler takes the event loop and invokes the sweep.
get_formats(r) ==
    /\ pc[r] = "idle"
    /\ loop = 0
    /\ loop' = r
    /\ kind' = [kind EXCEPT ![r] = "formats"]
    /\ pc' = [pc EXCEPT ![r] = "f_sweep"]
    /\ SweepBegin(r)
    /\ UNCHANGED <<now, fs, envVars, job_id, status, detail, err, failedOp,
                   streamVars, delFailed>>

\* Lines 91-183 when extract_info and the catalog construction succeed.
FormatsOk(r) ==
    /\ pc[r] = "f_sweep"
    /\ todo[r] = {}
    /\ cur[r] = NoPath
    /\ fs' = WriteCookies(fs)
    /\ pc' = [pc EXCEPT ![r] = "Completed"]
    /\ status' = [status EXCEPT ![r] = 200]
    /\ loop' = 0
    /\ UNCHANGED <<now, envVars, kind, job_id, detail, err, failedOp,
                   sweepVars, streamVars, delFailed>>

\* Variant that reports an extraction failure as a server-side error.
ExtractionFailed_AsServerError(e) ==
    [code |-> 500, detail |-> [prefix |-> "Extraction failed: ", msg |-> e]]

\* Lines 185-188: the response to an exception raised inside the try.
ExtractionFailed(e) == [code |-> 400, detail |-> [prefix |-> "Extraction failed: ", msg |-> e]]

\* Lines 91-116 and 185-188 when extract_info raises the message e.
FormatsFail(r) ==
    /\ pc[r] = "f_sweep"
    /\ todo[r] = {}
    /\ cur[r] = NoPath
    /\ fs' = WriteCookies(fs)
    /\ \E e \in ErrMsgs :
          /\ err' = [err EXCEPT ![r] = e]
          /\ status' = [status EXCEPT ![r] = ExtractionFailed(e).code]
          /\ detail' = [detail EXCEPT ![r] = ExtractionFailed(e).detail]
    /\ failedOp' = [failedOp EXCEPT ![r] = "extract"]
    /\ pc' = [pc EXCEPT ![r] = "Failed"]
    /\ loop' = 0
    /\ UNCHANGED <<now, envVars, kind, job_id, sweepVars, streamVars, delFailed>>

\* ---- health (main.py 74-82) ----------------------------------------------
\* The whole handler: it takes the event loop, runs "ffmpeg -version" with a
\* blocking subprocess.run, and answers 200 whatever the outcome.
health(r) ==
    /\ pc[r] = "idle"
    /\ loop = 0
    /\ kind' = [kind EXCEPT ![r] = "health"]
    /\ pc' = [pc EXCEPT ![r] = "Completed"]
    /\ status' = [status EXCEPT ![r] = 200]
    /\ UNCHANGED <<now, fs, envVars, loop, job_id, detail, err, failedOp,
                   sweepVars, streamVars, delFailed>>

\* ---- download_merged (main.py 190-298) ----------------------------------
\* Lines 195-197: the three paths of a job, derived from its job id.
video_file(r) == <<job_id[r], "video">>
audio_file(r) == <<job_id[r], "audio">>
output_file(r) == <<job_id[r], "merged">>
JobFiles(r) == {video_file(r), audio_file(r), output_file(r)}

\* Line 194: str(uuid.uuid4())[:8], a random value that is not compared
\* with the ids of any other job.
NewJobId == JobIds

\* Line 298: the error response of the pipeline.
PipelineFailed(d) == [code |-> 500, detail |-> d]

\* Variant of the error path that forgets the merged output.
CleanupTargets_InputsOnly(r) == {video_file(r), audio_file(r)}

\* Variant of the error path that also removes the credential file.
CleanupTargets_WithCookies(r) ==
    {video_file(r), audio_file(r), output_file(r), cookie_path}

\* Line 292: the paths the error path tries to delete.
CleanupTargets(r) == {video_file(r), audio_file(r), output_file(r)}

\* Variant of the deletion loop with one try around the whole loop: the
\* first failing unlink ends it (here: before anything was deleted).
Purge_StopAtFailure(F, T, failed) ==
    [p \in TEMP_DIR |-> IF p \in T /\ failed = {} THEN NoEntry ELSE F[p]]

\* Lines 292-297: the workspace after the deletion loop has run over the
\* paths T of the workspace F, the unlink of the paths in failed having
\* raised inside the per-file try.  A path that does not exist is skipped.
Purge(F, T, failed) ==
    [p \in TEMP_DIR |-> IF p \in T \ failed THEN NoEntry ELSE F[p]]

\* Lines 290-298, entered with the workspace F and the exception text d:
\* every existing job file is unlinked, a failing unlink is swallowed, and
\* HTTPException(500, str(e)) is raised, which ends the handler.
ExceptCleanup(r, F, pre, op, e, d) ==
    /\ \E failed \in SUBSET {p \in CleanupTargets(r) : F[p].typ # "none"} :
          /\ fs' = Purge(F, CleanupTargets(r), failed)
          /\ delFailed' = [delFailed EXCEPT ![r] = @ \cup pre \cup failed]
    /\ pc' = [pc EXCEPT ![r] = "Failed"]
    /\ status' = [status EXCEPT ![r] = PipelineFailed(d).code]
    /\ detail' = [detail EXCEPT ![r] = PipelineFailed(d).detail]
    /\ err' = [err EXCEPT ![r] = e]
    /\ failedOp' = [failedOp EXCEPT ![r] = op]
    /\ loop' = 0

\* str(e) of an exception raised by a collaborator with message e.
StrOf(e) == [prefix |-> "", msg |-> e]

\* Lines 191-205: the handler takes the event loop, draws the job id and
\* materialises the credential file.  No sweep is invoked.
download_merged(r) ==
    /\ pc[r] = "idle"
    /\ loop = 0
    /\ loop' = r
    /\ kind' = [kind EXCEPT ![r] = "download"]
    /\ \E id \in NewJobId : job_id' = [job_id EXCEPT ![r] = id]
    /\ fs' = WriteCookies(fs)
    /\ pc' = [pc EXCEPT ![r] = "FetchingMetadata"]
    /\ UNCHANGED <<now, envVars, status, detail, err, failedOp, sweepVars,
                   streamVars, delFailed>>

\* Variant of the resolve step that may go on without the video fetch.
ResolveOk_MaySkipVideo(r) ==
    /\ pc[r] = "FetchingMetadata"
    /\ \E s \in {"DownloadingVideo", "DownloadingAudio"} :
          pc' = [pc EXCEPT ![r] = s]
    /\ UNCHANGED <<now, fs, envVars, loop, kind, job_id, status, detail, err,
                   failedOp, sweepVars, streamVars, delFailed>>

\* Lines 217-219: extract_info(download=False) and sanitize_filename.
ResolveOk(r) ==
    /\ pc[r] = "FetchingMetadata"
    /\ pc' = [pc EXCEPT ![r] = "DownloadingVideo"]
    /\ UNCHANGED <<now, fs, envVars, loop, kind, job_id, status, detail, err,
                   failedOp, sweepVars, streamVars, delFailed>>

ResolveFail(r) ==
    /\ pc[r] = "FetchingMetadata"
    /\ \E e \in ErrMsgs : ExceptCleanup(r, fs, {}, "resolve", e, StrOf(e))
    /\ UNCHANGED <<now, envVars, kind, job_id, sweepVars, streamVars>>

\* Lines 231-232: ydl.download into video_file.
FetchVideoOk(r) ==
    /\ pc[r] = "DownloadingVideo"
    /\ fs' = [fs EXCEPT ![video_file(r)] = RegularFile(now, 1)]
    /\ pc' = [pc EXCEPT ![r] = "DownloadingAudio"]
    /\ UNCHANGED <<now, envVars, loop, kind, job_id, status, detail, err,
                   failedOp, sweepVars, streamVars, delFailed>>

\* Variant of the failing video fetch that notes the failure and leaves the
\* job in place to fetch again.
FetchVideoFail_Retry(r) ==
    /\ pc[r] = "DownloadingVideo"
    /\ \E e \in ErrMsgs : err' = [err EXCEPT ![r] = e]
    /\ failedOp' = [failedOp EXCEPT ![r] = "video"]
    /\ UNCHANGED <<now, fs, envVars, loop, kind, pc, job_id, status, detail,
                   sweepVars, streamVars, delFailed>>

FetchVideoFail(r) ==
    /\ pc[r] = "DownloadingVideo"
    /\ \E e \in ErrMsgs : ExceptCleanup(r, fs, {}, "video", e, StrOf(e))
    /\ UNCHANGED <<now, envVars, kind, job_id, sweepVars, streamVars>>

\* Lines 244-245: ydl.download into audio_file.
FetchAudioOk(r) ==
    /\ pc[r] = "DownloadingAudio"
    /\ fs' = [fs EXCEPT ![audio_file(r)] = RegularFile(now, 1)]
    /\ pc' = [pc EXCEPT ![r] = "Muxing"]
    /\ UNCHANGED <<now, envVars, loop, kind, job_id, status, detail, err,
                   failedOp, sweepVars, streamVars, delFailed>>

FetchAudioFail(r) ==
    /\ pc[r] = "DownloadingAudio"
    /\ \E e \in ErrMsgs : ExceptCleanup(r, fs, {}, "audio", e, StrOf(e))
    /\ UNCHANGED <<now, envVars, kind, job_id, sweepVars, streamVars>>

\* Lines 248-259, returncode 0: ffmpeg -y read both inputs and wrote
\* output_file (n chunks long), overwriting whatever was at that path.
MuxOk(r) ==
    /\ pc[r] = "Muxing"
    /\ fs[video_file(r)].typ = "file"
    /\ fs[audio_file(r)].typ = "file"
    /\ \E n \in 1..MaxChunks :
          fs' = [fs EXCEPT ![output_file(r)] = RegularFile(now, n)]
    /\ pc' = [pc EXCEPT ![r] = "Muxed"]
    /\ UNCHANGED <<now, envVars, loop, kind, job_id, status, detail, err,
                   failedOp, sweepVars, streamVars, delFailed>>

\* Line 260: the exception text of a failed combiner run.
FFmpegFailed(e) == [prefix |-> "FFmpeg failed: ", msg |-> e]

\* Lines 258-260, returncode # 0 with stderr e; ffmpeg may have left a
\* partial output file behind.
MuxFail(r) ==
    /\ pc[r] = "Muxing"
    /\ \E e \in ErrMsgs, partial \in BOOLEAN :
          ExceptCleanup(r,
                        IF partial
                        THEN [fs EXCEPT ![output_file(r)] = RegularFile(now, 1)]
                        ELSE fs,
                        {}, "mux", e, FFmpegFailed(e))
    /\ UNCHANGED <<now, envVars, kind, job_id, sweepVars, streamVars>>

\* Lines 262-288, both unlinks succeed: the inputs are gone and the
\* StreamingResponse is returned (status 200, body not yet produced).
PostMuxOk(r) ==
    /\ pc[r] = "Muxed"
    /\ fs' = [fs EXCEPT ![video_file(r)] = NoEntry, ![audio_file(r)] = NoEntry]
    /\ pc' = [pc EXCEPT ![r] = "Streaming"]
    /\ status' = [status EXCEPT ![r] = 200]
    /\ loop' = 0
    /\ UNCHANGED <<now, envVars, kind, job_id, detail, err, failedOp,
                   sweepVars, streamVars, delFailed>>

\* Lines 263-266 and 290-298: the unlink of an existing input raises (the
\* calls are outside any try); the exception reaches the except clause of
\* line 290 like any pipeline failure.  The video file is unlinked first.
PostMuxUnlinkRaises(r) ==
    /\ pc[r] = "Muxed"
    /\ \E p \in {q \in {video_file(r), audio_file(r)} : fs[q].typ # "none"},
          e \in ErrMsgs :
          ExceptCleanup(r,
                        IF p = audio_file(r)
                        THEN [fs EXCEPT ![video_file(r)] = NoEntry]
                        ELSE fs,
                        {p}, "unlink", e, StrOf(e))
    /\ UNCHANGED <<now, envVars, kind, job_id, sweepVars, streamVars>>

\* ---- file_iterator behind the StreamingResponse (main.py 271-288) ------
\* The response body is produced by calling next() on the generator once
\* per chunk; the call is handed to a worker thread from the event loop.
StreamDispatch(r) ==
    /\ pc[r] = "Streaming"
    /\ loop = 0
    /\ ~pending[r]
    /\ pending' = [pending EXCEPT ![r] = TRUE]
    /\ UNCHANGED <<now, fs, envVars, loop, reqVars, sweepVars, opened,
                   delivered, delFailed>>

\* The length of the file the generator reads: fixed by open() at line 272
\* on the first next(), the open handle afterwards.
Handle(r) == IF opened[r] >= 0 THEN opened[r] ELSE fs[output_file(r)].len

CanOpen(r) == opened[r] >= 0 \/ fs[output_file(r)].typ = "file"

\* Lines 272-274: a next() that reads and yields one more chunk.
StreamChunk(r) ==
    /\ pc[r] = "Streaming"
    /\ pending[r]
    /\ CanOpen(r)
    /\ Len(delivered[r]) < Handle(r)
    /\ opened' = [opened EXCEPT ![r] = Handle(r)]
    /\ delivered' = [delivered EXCEPT ![r] = Append(@, Len(@) + 1)]
    /\ pending' = [pending EXCEPT ![r] = FALSE]
    /\ UNCHANGED <<now, fs, envVars, loop, reqVars, sweepVars, delFailed>>

\* Lines 273, 275-279: the next() that reads end of file: the with block is
\* left, output_file is unlinked inside try/except, the generator returns.
StreamEnd(r) ==
    /\ pc[r] = "Streaming"
    /\ pending[r]
    /\ CanOpen(r)
    /\ Len(delivered[r]) = Handle(r)
    /\ \E ok \in BOOLEAN :
          IF fs[output_file(r)].typ # "none" /\ ok
          THEN /\ fs' = [fs EXCEPT ![output_file(r)] = NoEntry]
               /\ UNCHANGED delFailed
          ELSE /\ UNCHANGED fs
               /\ delFailed' = [delFailed EXCEPT ![r] = @ \cup {output_file(r)}]
    /\ opened' = [opened EXCEPT ![r] = -1]
    /\ pending' = [pending EXCEPT ![r] = FALSE]
    /\ pc' = [pc EXCEPT ![r] = "Completed"]
    /\ UNCHANGED <<now, envVars, loop, kind, job_id, status, detail, err,
                   failedOp, sweepVars, delivered>>

\* Lines 272-273 raising: open() of a missing file on the first next(), or
\* a read error later.  The exception leaves the generator before line 276
\* and is raised after download_merged has returned, outside its try.
StreamRaises(r) ==
    /\ pc[r] = "Streaming"
    /\ pending[r]
    /\ \E e \in ErrMsgs : err' = [err EXCEPT ![r] = e]
    /\ failedOp' = [failedOp EXCEPT ![r] = IF CanOpen(r) THEN "read" ELSE "open"]
    /\ opened' = [opened EXCEPT ![r] = -1]
    /\ pending' = [pending EXCEPT ![r] = FALSE]
    /\ pc' = [pc EXCEPT ![r] = "Failed"]
    /\ UNCHANGED <<now, fs, envVars, loop, kind, job_id, status, detail,
                   sweepVars, delivered, delFailed>>

\* The consumer disconnects while the body is being sent: the response task
\* is cancelled and the suspended generator is closed at its yield (or was
\* never started), so lines 276-279 are not executed.
ClientAbort(r) ==
    /\ pc[r] = "Streaming"
    /\ loop = 0
    /\ ~pending[r]
    /\ failedOp' = [failedOp EXCEPT ![r] = "abort"]
    /\ opened' = [opened EXCEPT ![r] = -1]
    /\ pc' = [pc EXCEPT ![r] = "Failed"]
    /\ UNCHANGED <<now, fs, envVars, loop, kind, job_id, status, detail, err,
                   sweepVars, pending, delivered, delFailed>>

Next ==
    \/ Tick
    \/ \E r \in Reqs :
          \/ health(r)
          \/ get_formats(r)
          \/ SweepIsFile(r)
          \/ SweepStat(r)
          \/ SweepStatRaises(r)
          \/ FormatsOk(r)
          \/ FormatsFail(r)
          \/ download_merged(r)
          \/ ResolveOk(r)
          \/ ResolveFail(r)
          \/ FetchVideoOk(r)
          \/ FetchVideoFail(r)
          \/ FetchAudioOk(r)
          \/ FetchAudioFail(r)
          \/ MuxOk(r)
          \/ MuxFail(r)
          \/ PostMuxOk(r)
          \/ PostMuxUnlinkRaises(r)
          \/ StreamDispatch(r)
          \/ StreamChunk(r)
          \/ StreamEnd(r)
          \/ StreamRaises(r)
          \/ ClientAbort(r)

Spec == Init /\ [][Next]_vars

\* ---- the catalog of get_formats on its own -------------------------------
\* extract_info has returned info; lines 118-183 turn it into the response.
BuildCatalog ==
    /\ resp = NoResp
    /\ resp' = Catalog(info)
    /\ UNCHANGED <<now, fs, cookiesEnv, loop, reqVars, sweepVars, streamVars,
                   delFailed, info>>

InitCatalog ==
    /\ now = 0
    /\ fs = [p \in TEMP_DIR |-> NoEntry]
    /\ cookiesEnv = FALSE
    /\ loop = 0
    /\ kind = [r \in Reqs |-> "none"]
    /\ pc = [r \in Reqs |-> "idle"]
    /\ job_id = [r \in Reqs |-> 0]
    /\ status = [r \in Reqs |-> 0]
    /\ detail = [r \in Reqs |-> NoDetail]
    /\ err = [r \in Reqs |-> ""]
    /\ failedOp = [r \in Reqs |-> "none"]
    /\ sweepNow = [r \in Reqs |-> 0]
    /\ todo = [r \in Reqs |-> {}]
    /\ cur = [r \in Reqs |-> NoPath]
    /\ sweeps = [r \in Reqs |-> 0]
    /\ pending = [r \in Reqs |-> FALSE]
    /\ opened = [r \in Reqs |-> -1]
    /\ delivered = [r \in Reqs |-> <<>>]
    /\ delFailed = [r \in Reqs |-> {}]
    /\ info \in InfoInputs
    /\ resp = NoResp

NextCatalog == BuildCatalog

SpecCatalog == InitCatalog /\ [][NextCatalog]_vars

\* ========================================================================
\* Properties
\* ========================================================================
IsDownload(r) == kind[r] = "download"
Terminal(r) == pc[r] \in {"Completed", "Failed"}
Exists(p) == fs[p].typ # "none"
\* No other request has drawn the job id of r.
OwnId(r) == \A q \in Reqs \ {r} : job_id[q] # job_id[r]
\* The combiner of r has exited with status 0.
MuxSucceeded(r) ==
    \/ pc[r] \in {"Muxed", "Streaming", "Completed"}
    \/ failedOp[r] \in {"unlink", "open", "read", "abort"}

\* C1: every download job that has reached Completed or Failed has none of
\* its three files left in the workspace.  Stated here for the jobs whose
\* id no other request drew and none of whose own unlink calls failed.
C1_TerminalJobHasNoFiles ==
    \A r \in Reqs :
        (IsDownload(r) /\ Terminal(r) /\ OwnId(r) /\ delFailed[r] = {})
            => \A p \in JobFiles(r) : ~Exists(p)

\* C2: when the consumer aborts the stream, or a read of the output file
\* fails, the merged output file has been deleted as on normal exhaustion.
C2_AbortDeletesOutput ==
    \A r \in Reqs :
        (IsDownload(r) /\ pc[r] = "Failed" /\ failedOp[r] \in {"abort", "read"}
           /\ OwnId(r) /\ delFailed[r] = {})
            => ~Exists(output_file(r))

\* The step in which the combiner of r is found to have failed.
MuxFailsNow(r) == failedOp[r] # "mux" /\ failedOp'[r] = "mux"

\* C3 (as stated): when the combiner exits non-zero the response is a 500
\* whose message contains the combiner's error output, no chunk has been
\* delivered, and after the response none of the job's three files exists.
C3_MuxFailureLeavesNothing ==
    [][\A r \in Reqs :
          MuxFailsNow(r) =>
             /\ status'[r] = 500
             /\ detail'[r] = [prefix |-> "FFmpeg failed: ", msg |-> err'[r]]
             /\ delivered'[r] = <<>>
             /\ \A p \in JobFiles(r) : fs'[p].typ = "none"]_vars

\* C3 (amended): as above, but of the job's three files exactly those whose
\* unlink did not fail are guaranteed absent after the response.
C3_MuxFailureBestEffort ==
    [][\A r \in Reqs :
          MuxFailsNow(r) =>
             /\ status'[r] = 500
             /\ detail'[r] = [prefix |-> "FFmpeg failed: ", msg |-> err'[r]]
             /\ err'[r] \in ErrMsgs
             /\ delivered'[r] = <<>>
             /\ pc'[r] = "Failed"
             /\ \A p \in JobFiles(r) \ delFailed'[r] : fs'[p].typ = "none"]_vars

\* A combiner failure has been answered and the job's files are gone.
C3_Witness ==
    \E r \in Reqs :
        /\ failedOp[r] = "mux" /\ status[r] = 500
        /\ delFailed[r] = {}
        /\ \A p \in JobFiles(r) : ~Exists(p)

\* C4: once the combiner has succeeded and the job streams, its video and
\* audio files are absent and stay absent through every outcome of the
\* streaming; while the job is about to deliver, the output file exists.
C4_InputsStayAbsent ==
    \A r \in Reqs :
        (IsDownload(r) /\ (pc[r] \in {"Streaming", "Completed"}
                           \/ failedOp[r] \in {"open", "read", "abort"}))
            => ~Exists(video_file(r)) /\ ~Exists(audio_file(r))

\* C5: while a job delivers its output the merged file exists: it is
\* deleted only after the last chunk has been consumed.  Stated here for
\* the jobs whose id no other request drew.
C5_OutputExistsWhileStreaming ==
    \A r \in Reqs :
        (IsDownload(r) /\ pc[r] = "Streaming" /\ OwnId(r))
            => fs[output_file(r)].typ = "file"

\* C6: every request, list-formats or download, has invoked the sweep once
\* before any of its other work.
C6_EveryRequestSweepsFirst ==
    \A r \in Reqs : pc[r] # "idle" => sweeps[r] = 1

\* C7: two download jobs that are active at the same time have pairwise
\* disjoint workspace paths.
C7_ActiveJobsDisjoint ==
    \A r, q \in Reqs :
        (r # q /\ IsDownload(r) /\ IsDownload(q) /\ ~Terminal(r) /\ ~Terminal(q))
            => JobFiles(r) \cap JobFiles(q) = {}

\* C8: a failing cleanup deletion is never surfaced: a job whose fetches
\* and combiner run all succeeded is not turned into an error response.
C8_CleanupFailureNotSurfaced ==
    \A r \in Reqs : (IsDownload(r) /\ MuxSucceeded(r)) => status[r] \in {0, 200}

\* The step in which the sweep of r is done with the entry cur[r].
SweepVisits(r) == pc[r] = "f_sweep" /\ cur[r] # NoPath /\ cur'[r] = NoPath

C10_NoFailureIsSuccess ==
    \A r \in Reqs :
        /\ failedOp[r] = "extract"
              => status[r] = 400 /\ detail[r].msg = err[r]
        /\ failedOp[r] \in {"resolve", "video", "audio", "mux"}
              => status[r] = 500 /\ detail[r].msg = err[r]
        /\ failedOp[r] \in {"extract", "resolve", "video", "audio", "mux",
                            "unlink", "open", "read", "sweep"}
              => status[r] # 200

\* C10 (amended): the same classification, with the last clause limited to
\* the failures that occur before the response has started.
C10_FailuresClassified ==
    \A r \in Reqs :
        /\ failedOp[r] = "extract"
              => /\ status[r] = 400
                 /\ detail[r] = [prefix |-> "Extraction failed: ", msg |-> err[r]]
                 /\ err[r] \in ErrMsgs
        /\ failedOp[r] \in {"resolve", "video", "audio", "mux"}
              => /\ status[r] = 500
                 /\ detail[r].msg = err[r]
                 /\ err[r] \in ErrMsgs
        /\ failedOp[r] \in {"extract", "resolve", "video", "audio", "mux",
                            "unlink", "sweep"}
              => status[r] # 200

\* One request was answered 400 for an extraction failure and another 500
\* for a failed fetch, each with its own message.
C10_Witness ==
    \E r, q \in Reqs :
        /\ failedOp[r] = "extract" /\ status[r] = 400
        /\ failedOp[q] \in {"video", "audio"} /\ status[q] = 500
        /\ detail[r].msg # detail[q].msg

\* The pipeline stages in which download_merged sits in a blocking call of a
\* collaborator (extract_info, download, subprocess.run).
Blocking == {"FetchingMetadata", "DownloadingVideo", "DownloadingAudio", "Muxing"}

\* C11: while one download job is blocked in a fetch or in the combiner,
\* every request that has arrived and not yet been served (health check,
\* list-formats or download) can be started, and a job that is streaming
\* can be handed its next chunk.
C11_BlockedJobStallsNobody ==
    \A r, q \in Reqs :
        (r # q /\ IsDownload(r) /\ pc[r] \in Blocking)
            => /\ pc[q] = "idle"
                    => (ENABLED health(q)) /\ (ENABLED get_formats(q))
                       /\ (ENABLED download_merged(q))
               /\ (pc[q] = "Streaming" /\ ~pending[q]) => ENABLED StreamDispatch(q)

\* ---- properties of the catalog (checked under SpecCatalog) --------------
\* A codec counts as present unless it is missing, empty or "none".
Present(c) == ~(c = "<absent>" \/ c = "" \/ c = "none")
\* The positions at which the record with id i appears in the response.
Occurrences(i) == {j \in DOMAIN resp.formats : resp.formats[j].format_id = i}

\* C12: in the catalog built from a listing, a record with only a video
\* codec appears once as video, one with only an audio codec once as audio,
\* one with both once as combined, and one with neither does not appear;
\* the catalog holds nothing else.
C12_ClassifiedByCodecPresence ==
    (resp # NoResp /\ info.formats # <<>>) =>
        /\ resp.status = 200
        /\ \A j \in DOMAIN resp.formats :
              resp.formats[j].format_id \in DOMAIN info.formats
        /\ \A i \in DOMAIN info.formats :
              LET v == Present(info.formats[i].vcodec)
                  a == Present(info.formats[i].acodec)
              IN  IF ~v /\ ~a THEN Occurrences(i) = {}
                  ELSE /\ Cardinality(Occurrences(i)) = 1
                       /\ \A j \in Occurrences(i) :
                             resp.formats[j].type =
                                 IF v /\ a THEN "combined"
                                 ELSE IF v THEN "video" ELSE "audio"

\* A listing of three records, with an empty and a missing codec among
\* them, gave one video and one audio descriptor and dropped the third.
C12_Witness ==
    /\ resp.status = 200
    /\ Len(info.formats) = 3
    /\ info.formats[1].acodec = "" /\ info.formats[2].vcodec = "<absent>"
    /\ Len(resp.formats) = 2
    /\ {resp.formats[j].type : j \in DOMAIN resp.formats} = {"video", "audio"}

\* C13: the catalog is ordered by height descending (unknown height is 0),
\* and descriptors of equal height keep the order of the listing.
C13_SortedByHeightStable ==
    (resp # NoResp /\ resp.status = 200) =>
        \A j, k \in DOMAIN resp.formats :
            j < k =>
               /\ resp.formats[j].height.v >= resp.formats[k].height.v
               /\ resp.formats[j].height.v = resp.formats[k].height.v
                     => resp.formats[j].format_id < resp.formats[k].format_id

\* Heights [480, 720, 480] came out as records 2, 1, 3.
C13_Witness ==
    /\ Len(info.formats) = 3
    /\ Len(resp.formats) = 3
    /\ <<resp.formats[1].format_id, resp.formats[2].format_id,
         resp.formats[3].format_id>> = <<2, 1, 3>>
    /\ <<resp.formats[1].height.v, resp.formats[2].height.v,
         resp.formats[3].height.v>> = <<720, 480, 480>>

\* C14: without a listing but with a direct url the catalog holds exactly
\* one combined descriptor, with resolution "?x?" whenever width or height
\* is unknown and an integer height >= 0 that is 0 when unknown; without a
\* listing and without a url the response is a success with no formats and
\* a populated title.
C14_FallbackDescriptor ==
    (resp # NoResp /\ info.formats = <<>>) =>
        /\ resp.status = 200
        /\ info.url =>
              /\ Len(resp.formats) = 1
              /\ resp.formats[1].type = "combined"
              /\ (info.width.k # "int" \/ info.height.k # "int")
                    => resp.formats[1].resolution = <<Question, Question>>
              /\ resp.formats[1].height.k = "int"
              /\ resp.formats[1].height.v >= 0
              /\ info.height.k # "int" => resp.formats[1].height.v = 0
        /\ ~info.url =>
              /\ resp.formats = <<>>
              /\ resp.title \in {"T", "Unknown Title"}

\* ---- the order of a download job's operations ---------------------------
\* The position of a job state in the pipeline of download_merged.
Rank(s) ==
    CASE s = "idle" -> 0
      [] s = "FetchingMetadata" -> 1
      [] s = "DownloadingVideo" -> 2
      [] s = "DownloadingAudio" -> 3
      [] s = "Muxing" -> 4
      [] s = "Muxed" -> 5
      [] s = "Streaming" -> 6
      [] s = "Completed" -> 7
      [] OTHER -> 8

\* C15: the operations of a download job happen in one fixed order, one at
\* a time: resolve, video fetch, audio fetch, combiner, streaming.  Every
\* change of the job's state moves it to the next stage or to Failed; the
\* audio fetch starts in the step in which the video fetch succeeded, the
\* combiner only with both fetched files written and no failure recorded,
\* and streaming only after the combiner has written the output.
C15_FixedOrder ==
    [][\A r \in Reqs :
          (kind'[r] = "download" /\ pc'[r] # pc[r]) =>
             /\ pc'[r] = "Failed" \/ Rank(pc'[r]) = Rank(pc[r]) + 1
             /\ pc[r] # "Failed"
             /\ pc'[r] = "DownloadingAudio"
                   => fs'[video_file(r)].typ = "file" /\ failedOp'[r] = "none"
             /\ pc'[r] = "Muxing"
                   => /\ fs'[video_file(r)].typ = "file"
                      /\ fs'[audio_file(r)].typ = "file"
                      /\ failedOp'[r] = "none"
             /\ pc'[r] = "Muxed"
                   => fs'[output_file(r)].typ = "file" /\ failedOp'[r] = "none"
             /\ pc'[r] = "Streaming"
                   => pc[r] = "Muxed" /\ status'[r] = 200 /\ delivered'[r] = <<>>
      ]_vars

\* A job went through every stage and delivered its output.
C15_Witness ==
    \E r \in Reqs :
        /\ IsDownload(r) /\ pc[r] = "Completed" /\ failedOp[r] = "none"
        /\ status[r] = 200 /\ Len(delivered[r]) >= 1

\* C16: there is no retry.  A job never returns to a stage it has left, so
\* each of resolve, video fetch, audio fetch and combiner is invoked at most
\* once; the step in which an operation fails takes the job to Failed, and
\* from then on nothing of the job changes: no later operation is invoked.
C16_NoRetry ==
    [][\A r \in Reqs :
          kind'[r] = "download" =>
             /\ pc'[r] # pc[r] => Rank(pc'[r]) > Rank(pc[r])
             /\ failedOp'[r] # failedOp[r]
                   => failedOp[r] = "none" /\ pc[r] # "Failed" /\ pc'[r] = "Failed"
             /\ pc[r] = "Failed"
                   => /\ pc'[r] = "Failed"
                      /\ status'[r] = status[r]
                      /\ detail'[r] = detail[r]
                      /\ job_id'[r] = job_id[r]
                      /\ delivered'[r] = delivered[r]
                      /\ delFailed'[r] = delFailed[r]
      ]_vars

\* The video fetch of a job failed: the job is Failed, answered 500, and
\* neither the audio fetch nor the combiner has written anything.
C16_Witness ==
    \E r \in Reqs :
        /\ IsDownload(r) /\ failedOp[r] = "video" /\ pc[r] = "Failed"
        /\ status[r] = 500 /\ OwnId(r)
        /\ ~Exists(audio_file(r)) /\ ~Exists(output_file(r))

\* C17: the sweep suppresses every per-file error: when an entry it listed
\* has been removed by somebody else before the sweep inspects or deletes
\* it, the sweep goes on with the remaining entries and the request that
\* invoked it is not failed by it.
C17_SweepNeverFailsRequest ==
    /\ \A r \in Reqs : failedOp[r] # "sweep"
    /\ \A r \in Reqs :
          (pc[r] = "f_sweep" /\ cur[r] # NoPath /\ ~Exists(cur[r]))
              => ~ENABLED SweepStatRaises(r)

\* The step in which the except clause of download_merged has run for r.
CleansUpNow(r) ==
    /\ failedOp[r] = "none"
    /\ failedOp'[r] \in {"resolve", "video", "audio", "mux", "unlink"}

\* C18 (as stated): whatever subset of the job's three files exists when
\* an operation fails, the cleanup ends with none of them existing, the
\* response is the failure's own 500, and a second cleanup changes nothing.
C18_CleanupTotal ==
    [][\A r \in Reqs :
          CleansUpNow(r) =>
             /\ \A p \in JobFiles(r) : fs'[p].typ = "none"
             /\ status'[r] = 500 /\ detail'[r].msg = err'[r]
             /\ Purge(fs', CleanupTargets(r)', {}) = fs'
      ]_vars

\* C18 (amended): the cleanup ends with none of the job's three files
\* existing except those whose unlink failed; an absent path is skipped
\* without error, the response is the failure's own 500, and when no unlink
\* failed a second cleanup changes nothing.
C18_CleanupBestEffortIdempotent ==
    [][\A r \in Reqs :
          CleansUpNow(r) =>
             /\ \A p \in JobFiles(r) \ delFailed'[r] : fs'[p].typ = "none"
             /\ status'[r] = 500 /\ detail'[r].msg = err'[r]
             /\ pc'[r] = "Failed"
             /\ delFailed'[r] = {}
                   => Purge(fs', CleanupTargets(r)', {}) = fs'
      ]_vars

\* An audio fetch failed with only the video file written, and the cleanup
\* left none of the job's files.
C18_Witness ==
    \E r \in Reqs :
        /\ IsDownload(r) /\ failedOp[r] = "audio" /\ status[r] = 500
        /\ delFailed[r] = {} /\ OwnId(r)
        /\ \A p \in JobFiles(r) : ~Exists(p)

\* C19: a sweep never deletes a file owned by a job that has not reached a
\* terminal state.  Stated for the jobs whose id no other request drew.
C19_SweepSparesLiveJobs ==
    [][\A q, r \in Reqs :
          (SweepVisits(q) /\ IsDownload(r) /\ ~Terminal(r) /\ OwnId(r))
              => \A p \in JobFiles(r) : fs'[p] = fs[p]
      ]_vars

\* C20: a step of a download job changes no workspace entry other than the
\* job's own three paths: neither a file of a job with another id nor the
\* credential file is removed or changed by its deletions.
C20_OwnPathsOnly ==
    [][\A r \in Reqs :
          (IsDownload(r) /\ (pc'[r] # pc[r] \/ delFailed'[r] # delFailed[r]))
              => \A p \in TEMP_DIR \ JobFiles(r) : fs'[p] = fs[p]
      ]_vars

\* A job with its own id failed and cleaned up while the credential file
\* and the output of a streaming job with another id stayed in place.
C20_Witness ==
    \E r, q \in Reqs :
        /\ r # q /\ IsDownload(r) /\ IsDownload(q) /\ job_id[r] # job_id[q]
        /\ pc[r] = "Failed" /\ failedOp[r] \in {"video", "audio", "mux"}
        /\ pc[q] = "Streaming" /\ Exists(output_file(q))
        /\ fs[output_file(q)].mtime < fs[cookie_path].mtime
        /\ Exists(cookie_path)

====
